---- MODULE Spec2Model ----
(***************************************************************************)
(* Model of the load stage of the Twitch streaming ETL                     *)
(* (scripts/load_db.py, run_load): one loader process that reads a         *)
(* processed CSV, stamps it, and writes it to the `streams` table inside   *)
(* one `engine.begin()` transaction.                                       *)
(*                                                                         *)
(* The database is modelled by two copies of the table: `store` is the     *)
(* committed state, `txn` is what the open connection sees.  The table     *)
(* check, the existing-id read, the data write and the index step of       *)
(* run_load are separate steps, so that a storage failure or a process     *)
(* crash can strike at each of them.                                       *)
(*                                                                         *)
(* Two further specifications share the module: SpecSummary runs the       *)
(* summary operations (get_historical_summary, HistoricalAnalyzer) on a    *)
(* stored table, and SpecTransform runs run_transform                      *)
(* (scripts/transform.py) and the chunked game lookup it shares with       *)
(* fetch_games (scripts/extract_twitch.py).                                *)
(***************************************************************************)
EXTENDS Integers, Sequences, FiniteSets, TLC

\* ---------------------------------------------------------------- bounds
MaxId    == 2      \* stream ids are 1..MaxId
MaxViews == 1      \* viewer_count values are 1..MaxViews
MaxTime  == 2      \* datetime.now() values are 1..MaxTime
MaxBatch == 2      \* rows in one processed CSV

Null == 0          \* a missing value (NULL / NaN)

IDs   == 1..MaxId
Views == 1..MaxViews
Times == 1..MaxTime

\* -------------------------------------------------------------- columns
\* The columns of the processed CSV that the loader, its indexes or the
\* summary queries name.
StreamCols == {"id", "user_id", "started_at", "game_id", "language",
               "hour_of_day", "viewer_count"}

\* The CREATE INDEX statements of run_load, in program order.
IndexList == << [name |-> "idx_streams_started",  col |-> "started_at"],
                [name |-> "idx_streams_game",     col |-> "game_id"],
                [name |-> "idx_streams_lang",     col |-> "language"],
                [name |-> "idx_streams_hour",     col |-> "hour_of_day"],
                [name |-> "idx_streams_id",       col |-> "id"],
                [name |-> "idx_streams_ingested", col |-> "ingested_at"] >>

IndexNames == {IndexList[i].name : i \in DOMAIN IndexList}

\* ------------------------------------------------------------------ data
SeqsUpTo(S, n) == UNION {[1..k -> S] : k \in 0..n}

\* pd.read_csv(proc_csv): a table with a header and up to MaxBatch rows.
\* A CSV without the id column yields rows whose id is missing.
CsvFiles ==
    {[cols |-> StreamCols, rows |-> r] :
        r \in SeqsUpTo([id : IDs, viewer_count : Views], MaxBatch)}
    \cup
    {[cols |-> StreamCols \ {"id"}, rows |-> r] :
        r \in SeqsUpTo([id : {Null}, viewer_count : Views], MaxBatch)}

\* df['ingested_at'] = datetime.now().isoformat()
Stamp(csv, now) ==
    [cols |-> csv.cols \cup {"ingested_at"},
     rows |-> [i \in DOMAIN csv.rows |->
                 [id           |-> csv.rows[i].id,
                  viewer_count |-> csv.rows[i].viewer_count,
                  ingested_at  |-> now]]]

\* The CSV a stamped frame came from.
Unstamp(d) ==
    [cols |-> d.cols \ {"ingested_at"},
     rows |-> [i \in DOMAIN d.rows |->
                 [id |-> d.rows[i].id, viewer_count |-> d.rows[i].viewer_count]]]

\* A database without the streams table.
Absent == [exists |-> FALSE, cols |-> {}, rows |-> << >>, indexes |-> {}]

IdsOf(rows) == {rows[i].id : i \in DOMAIN rows}

\* Variant: the table check never finds the table.
TableExistsNever(t) == FALSE

\* SELECT name FROM sqlite_master WHERE type='table' AND name='streams'
TableExists(t) == t.exists

\* Variant: the existing ids are not read.
SelectDistinctIdEmpty(t) == {}

\* SELECT DISTINCT id FROM streams
SelectDistinctId(t) == IdsOf(t.rows)

\* Variant: the frame is not filtered.
NewStreamsUnfiltered(d, ids) == d

\* df[~df['id'].isin(existing_ids)]
NewStreams(d, ids) ==
    [cols |-> d.cols, rows |-> SelectSeq(d.rows, LAMBDA r : r.id \notin ids)]

\* Variant: the replacing write keeps the rows of the table.
ToSqlReplaceKeepsRows(t, d) ==
    [exists |-> TRUE, cols |-> d.cols, rows |-> t.rows \o d.rows, indexes |-> {}]

\* DataFrame.to_sql("streams", conn, if_exists="replace"): drop the table
\* (and with it its indexes) and create it from the frame.
ToSqlReplace(t, d) ==
    [exists |-> TRUE, cols |-> d.cols, rows |-> d.rows, indexes |-> {}]

\* Variant: the appending write overwrites the rows of the table.
ToSqlAppendOverwrites(t, d) == [t EXCEPT !.rows = d.rows]

\* DataFrame.to_sql("streams", conn, if_exists="append")
ToSqlAppend(t, d) == [t EXCEPT !.rows = t.rows \o d.rows]

\* The first k rows of a frame (a write interrupted after k rows).
FirstRows(d, k) == [d EXCEPT !.rows = SubSeq(d.rows, 1, k)]

NoReport == [msg |-> "none", n |-> 0, total |-> -1]

\* ------------------------------------------------------------- summaries
\* The literal 'N/A' that the queries for a table without ingested_at
\* select as first_ingestion and last_ingestion.
NotAvailable == -1

\* No summary operation has run.
NoSummary == [op |-> "none", raised |-> "none", printed |-> "none",
              query |-> {}, total_streams |-> 0,
              first_ingestion |-> Null, last_ingestion |-> Null,
              history |-> << >>]

\* ----------------------------------------------------------------- state
VARIABLES
    store,             \* committed database state
    txn,               \* the state seen inside the open transaction
    pc,                \* position of the loader in run_load
    df,                \* the stamped batch
    preserve_history,  \* the mode argument of run_load
    table_exists,      \* local of run_load
    existing_ids,      \* local of run_load
    attempted,         \* CREATE INDEX statements executed by this load
    report,            \* what run_load printed about the data write
    warning,           \* an index creation warning was printed
    raised,            \* exception that left the with-block
    outcome,           \* how the last run_load ended
    fault,             \* step at which a storage failure / crash struck
    pre,               \* store at the start of the current load
    repeat,            \* the current load re-runs the load that just ended
    lifecycle,         \* which kind of write last committed to the table
    pre_lifecycle      \* lifecycle at the start of the current load

\* The state of the loader.
loaderVars == << store, txn, pc, df, preserve_history, table_exists,
                 existing_ids, attempted, report, warning, raised, outcome,
                 fault, pre, repeat, lifecycle, pre_lifecycle >>

VARIABLES
    summary            \* what the last summary operation returned or printed

VARIABLES
    streams_csv,       \* the raw streams CSV
    games_csv,         \* the raw games CSV
    proc_csv,          \* the processed CSV on disk
    tpc,               \* position in run_transform / fetch_games
    s,                 \* the working stream frame of run_transform
    g,                 \* the reference frame of run_transform
    need,              \* the ids handed to the lookup
    pos,               \* the loop index i of the lookup
    calls,             \* the chunks requested so far, one per call
    fetched,           \* the list `out` of the lookup
    failed,            \* a call of the lookup has failed
    terr               \* exception that left run_transform / fetch_games

transformVars == << streams_csv, games_csv, proc_csv, tpc, s, g, need, pos,
                    calls, fetched, failed, terr >>

VARIABLES
    loaders,           \* two loads running at once: the locals of each
    lock               \* the load holding the write lock of the database

concurrentVars == << loaders, lock >>

VARIABLES
    entry,             \* the entry point of the pipeline run in progress
    argv,              \* sys.argv[1:] of that entry point
    stage,             \* the state of each stage of the run
    tries,             \* how often each stage was started in the run
    raw_file,          \* data/raw/twitch_streams.csv
    proc_file,         \* data/processed/streams_processed.csv
    mode               \* the mode of the last load that committed

pipelineVars == << entry, argv, stage, tries, raw_file, proc_file, mode >>

VARIABLES
    token_cache,       \* auth.py: _token_cache
    clock,             \* what time.time() returns, in seconds
    credentials,       \* CLIENT_ID and CLIENT_SECRET are both set
    auth               \* what the last get_app_token call did

authVars == << token_cache, clock, credentials, auth >>

\* The state of the subsystems other than loader, summaries and transform.
restVars == << concurrentVars, pipelineVars, authVars >>

\* The state outside the loader, which no step of run_load touches.
otherVars == << summary, transformVars, restVars >>

vars == << loaderVars, otherVars >>

\* No transform is running and nothing has been transformed.
TransformIdle ==
    /\ streams_csv = [cols |-> {}, rows |-> << >>]
    /\ games_csv = [exists |-> FALSE, rows |-> << >>]
    /\ proc_csv = [cols |-> << "id" >>, rows |-> << >>, written |-> FALSE]
    /\ tpc = "idle"
    /\ s = [cols |-> {}, rows |-> << >>]
    /\ g = << >>
    /\ need = << >>
    /\ pos = 0
    /\ calls = << >>
    /\ fetched = << >>
    /\ failed = FALSE
    /\ terr = "none"

LoaderInit ==
    /\ store = Absent
    /\ txn = Absent
    /\ pc = "idle"
    /\ df = Stamp([cols |-> StreamCols, rows |-> << >>], 1)
    /\ preserve_history = TRUE
    /\ table_exists = FALSE
    /\ existing_ids = {}
    /\ attempted = 0
    /\ report = NoReport
    /\ warning = FALSE
    /\ raised = "none"
    /\ outcome = "none"
    /\ fault = "none"
    /\ pre = Absent
    /\ repeat = FALSE
    /\ lifecycle = "ABSENT"
    /\ pre_lifecycle = "ABSENT"

\* No second load is running.
ConcurrentIdle ==
    /\ loaders = << >>
    /\ lock = 0

\* A file that is not on disk.
NoFile == [cols |-> {}, rows |-> << >>]

Stages == << "extract", "transform", "load" >>

\* No pipeline run is in progress and none has run.
PipelineIdle ==
    /\ entry = "none"
    /\ argv = << >>
    /\ stage = [i \in DOMAIN Stages |-> "none"]
    /\ tries = [i \in DOMAIN Stages |-> 0]
    /\ raw_file = NoFile
    /\ proc_file = NoFile
    /\ mode = "none"

\* No get_app_token call has been made.
NoCall == [result |-> "none", requested |-> FALSE, returned |-> Null,
           at |-> 0, before |-> [access_token |-> Null, expires_at |-> 0]]

\* auth.py line 18, before the first call.
AuthIdle ==
    /\ token_cache = [access_token |-> Null, expires_at |-> 0]
    /\ clock = 0
    /\ credentials = TRUE
    /\ auth = NoCall

\* The subsystems other than loader, summaries and transform are idle.
RestIdle == ConcurrentIdle /\ PipelineIdle /\ AuthIdle

Init ==
    /\ LoaderInit
    /\ summary = NoSummary
    /\ TransformIdle
    /\ RestIdle

\* ------------------------------------------------------- the transaction
\* `with engine.begin() as conn:` leaves the block normally: COMMIT.
CommitTo(committed, working) == working

\* Variant: no rollback, the writes made so far stay.
RollbackKeepsWrites(committed, working) == working

\* `with engine.begin() as conn:` is left by an exception: ROLLBACK.
RollbackTo(committed, working) == committed

\* The frame run_load writes in the append branch.
new_streams == NewStreams(df, existing_ids)

\* Locals of a run_load call before its first statement.
FreshLocals ==
    /\ table_exists' = FALSE
    /\ existing_ids' = {}
    /\ attempted' = 0
    /\ report' = NoReport
    /\ warning' = FALSE
    /\ raised' = "none"
    /\ outcome' = "none"
    /\ fault' = "none"

\* An exception leaves the with-block and reaches the caller of run_load.
Raise(exc) ==
    /\ raised' = exc
    /\ store' = RollbackTo(store, txn')
    /\ outcome' = "error"
    /\ pc' = "done"
    /\ UNCHANGED << lifecycle, pre_lifecycle >>

\* ----------------------------------------------------------------- steps
\* run_load lines 31-38: read the CSV, stamp it, open the transaction.
Start ==
    /\ pc = "idle"
    /\ \E csv \in CsvFiles, ph \in BOOLEAN, now \in Times :
         /\ df' = Stamp(csv, now)
         /\ preserve_history' = ph
         /\ pc' = IF ph THEN "check" ELSE "write"
    /\ repeat' = FALSE
    /\ pre' = store
    /\ pre_lifecycle' = lifecycle
    /\ txn' = store
    /\ FreshLocals
    /\ UNCHANGED << store, lifecycle >>
    /\ UNCHANGED otherVars

\* The caller runs the HISTORICAL load again on the processed CSV that the
\* load which just committed has read (the file is still on disk).
StartAgain ==
    /\ pc = "done"
    /\ outcome = "committed"
    /\ preserve_history
    /\ \E now \in Times : df' = Stamp(Unstamp(df), now)
    /\ repeat' = TRUE
    /\ pc' = "check"
    /\ pre' = store
    /\ pre_lifecycle' = lifecycle
    /\ txn' = store
    /\ FreshLocals
    /\ UNCHANGED << store, preserve_history, lifecycle >>
    /\ UNCHANGED otherVars

\* lines 41-42: SELECT name FROM sqlite_master ...
CheckTable ==
    /\ pc = "check"
    /\ table_exists' = TableExists(txn)
    /\ pc' = IF table_exists' THEN "read" ELSE "write"
    /\ UNCHANGED << store, txn, df, preserve_history, existing_ids, attempted,
                    report, warning, raised, outcome, fault, pre, repeat,
                    lifecycle, pre_lifecycle >>
    /\ UNCHANGED otherVars

\* lines 46-49: read the existing ids, then filter the frame by df['id'].
\* The SELECT fails on a table without an id column; df['id'] raises
\* KeyError on a frame without one.
ReadExisting ==
    /\ pc = "read"
    /\ UNCHANGED txn
    /\ IF "id" \notin txn.cols
       THEN /\ Raise("OperationalError")
            /\ UNCHANGED existing_ids
       ELSE /\ existing_ids' = SelectDistinctId(txn)
            /\ IF "id" \notin df.cols
               THEN Raise("KeyError")
               ELSE /\ pc' = "write"
                    /\ UNCHANGED << store, raised, outcome, lifecycle,
                                    pre_lifecycle >>
    /\ UNCHANGED << df, preserve_history, table_exists, attempted,
                    report, warning, fault, pre, repeat >>
    /\ UNCHANGED otherVars

\* lines 51-67: the data write of the three branches.
WriteData ==
    /\ pc = "write"
    /\ IF preserve_history /\ table_exists
       THEN IF Len(new_streams.rows) > 0
            THEN IF new_streams.cols \subseteq txn.cols
                 THEN /\ txn' = ToSqlAppend(txn, new_streams)
                      /\ report' = [msg |-> "added",
                                    n |-> Len(new_streams.rows),
                                    total |-> Len(txn'.rows)]
                      /\ pc' = "index"
                      /\ UNCHANGED << store, raised, outcome, lifecycle,
                                      pre_lifecycle >>
                 ELSE \* table streams has no column named ...
                      /\ UNCHANGED << txn, report >>
                      /\ Raise("OperationalError")
            ELSE /\ report' = [msg |-> "nonew", n |-> 0,
                               total |-> Len(txn.rows)]
                 /\ pc' = "index"
                 /\ UNCHANGED << txn, store, raised, outcome, lifecycle,
                                 pre_lifecycle >>
       ELSE /\ txn' = ToSqlReplace(txn, df)
            /\ report' = [msg |-> IF preserve_history THEN "created"
                                                      ELSE "replaced",
                          n |-> Len(df.rows), total |-> -1]
            /\ pc' = "index"
            /\ UNCHANGED << store, raised, outcome, lifecycle, pre_lifecycle >>
    /\ UNCHANGED << df, preserve_history, table_exists, existing_ids,
                    attempted, warning, fault, pre, repeat >>
    /\ UNCHANGED otherVars

\* The CREATE INDEX statement at position i fails: its column is missing
\* from the table, or the storage fails at position f.
IndexFails(t, i, f) == IndexList[i].col \notin t.cols \/ i = f

\* The position of the first failing CREATE INDEX statement;
\* Len(IndexList) + 1 when none fails.
FirstFailure(t, f) ==
    IF \E i \in DOMAIN IndexList : IndexFails(t, i, f)
    THEN CHOOSE i \in DOMAIN IndexList :
            /\ IndexFails(t, i, f)
            /\ \A j \in 1..(i - 1) : ~IndexFails(t, j, f)
    ELSE Len(IndexList) + 1

\* Variant: a failing statement is skipped and the later ones still run.
CreateIndexesSkipsFailed(t, f) ==
    [t EXCEPT !.indexes =
        @ \cup {IndexList[i].name :
                    i \in {j \in DOMAIN IndexList : ~IndexFails(t, j, f)}}]

\* lines 70-76: CREATE INDEX IF NOT EXISTS, in order, up to the first error.
CreateIndexes(t, f) ==
    [t EXCEPT !.indexes =
        @ \cup {IndexList[i].name : i \in 1..(FirstFailure(t, f) - 1)}]

\* Variant: the index error is not caught.
IndexErrorPropagates == "exception"

\* lines 77-78: how the with-block is left when a CREATE INDEX statement
\* has raised.  The exception is caught and printed, so the block is left
\* normally.
IndexErrorExit == "normal"

\* lines 69-78 and the end of the with-block: the index step, then COMMIT.
\* f is the position at which the storage fails (0: nowhere).
IndexAndCommit ==
    /\ pc = "index"
    /\ \E f \in 0..Len(IndexList) :
         /\ txn' = CreateIndexes(txn, f)
         /\ attempted' = IF FirstFailure(txn, f) > Len(IndexList)
                         THEN Len(IndexList) ELSE FirstFailure(txn, f)
         /\ warning' = (FirstFailure(txn, f) <= Len(IndexList))
         /\ fault' = IF f # 0 /\ FirstFailure(txn, f) = f THEN "index" ELSE fault
         /\ IF warning' /\ IndexErrorExit # "normal"
            THEN /\ store' = RollbackTo(store, txn')
                 /\ outcome' = "error"
                 /\ UNCHANGED lifecycle
            ELSE /\ store' = CommitTo(store, txn')
                 /\ outcome' = "committed"
                 /\ lifecycle' = IF preserve_history /\ table_exists
                                  THEN "STEADY" ELSE "BOOTSTRAPPED"
    /\ pc' = "done"
    /\ UNCHANGED << df, preserve_history, table_exists, existing_ids,
                    report, raised, pre, repeat, pre_lifecycle >>
    /\ UNCHANGED otherVars

\* run_load has returned or raised; its locals are gone.
Return ==
    /\ pc = "done"
    /\ pc' = "idle"
    /\ df' = Stamp([cols |-> StreamCols, rows |-> << >>], 1)
    /\ preserve_history' = TRUE
    /\ repeat' = FALSE
    /\ pre' = store
    /\ pre_lifecycle' = lifecycle
    /\ txn' = store
    /\ FreshLocals
    /\ UNCHANGED << store, lifecycle >>
    /\ UNCHANGED otherVars

\* --------------------------------------------------------------- faults
\* A storage failure in the table check or the existing-id read.
FailRead ==
    /\ pc \in {"check", "read"}
    /\ fault' = pc
    /\ UNCHANGED txn
    /\ Raise("OperationalError")
    /\ UNCHANGED << df, preserve_history, table_exists, existing_ids,
                    attempted, report, warning, pre, repeat >>
    /\ UNCHANGED otherVars

\* The frame the write step is about to hand to to_sql.
WriteFrame == IF preserve_history /\ table_exists THEN new_streams ELSE df

\* A storage failure during to_sql, after k rows went in.
FailWrite ==
    /\ pc = "write"
    /\ ~(preserve_history /\ table_exists /\ Len(new_streams.rows) = 0)
    /\ \E k \in 0..Len(WriteFrame.rows) :
         /\ k < Len(WriteFrame.rows) \/ k = 0
         /\ txn' = IF preserve_history /\ table_exists
                   THEN ToSqlAppend(txn, FirstRows(WriteFrame, k))
                   ELSE ToSqlReplace(txn, FirstRows(WriteFrame, k))
         /\ Raise("OperationalError")
    /\ fault' = "write"
    /\ UNCHANGED << df, preserve_history, table_exists, existing_ids,
                    attempted, report, warning, pre, repeat >>
    /\ UNCHANGED otherVars

\* The process dies inside the with-block: nothing is committed.
Crash ==
    /\ pc \in {"check", "read", "write", "index"}
    /\ fault' = "crash"
    /\ store' = RollbackTo(store, txn)
    /\ outcome' = "crashed"
    /\ pc' = "done"
    /\ UNCHANGED << txn, df, preserve_history, table_exists, existing_ids,
                    attempted, report, warning, raised, pre, repeat,
                    lifecycle, pre_lifecycle >>
    /\ UNCHANGED otherVars

Next ==
    \/ Start
    \/ StartAgain
    \/ CheckTable
    \/ ReadExisting
    \/ WriteData
    \/ IndexAndCommit
    \/ Return
    \/ FailRead
    \/ FailWrite
    \/ Crash

Spec == Init /\ [][Next]_vars

\* ------------------------------------------------------------ type check
TypeOK ==
    /\ pc \in {"idle", "check", "read", "write", "index", "done"}
    /\ store.exists \in BOOLEAN
    /\ attempted \in 0..Len(IndexList)
    /\ outcome \in {"none", "committed", "error", "crashed"}


\* ============================================================ properties
\* The load has ended (returned or raised) and its locals are in view.
Done == pc = "done"

\* The rows a load that meets no failure leaves in the table, from the
\* store it started on, its frame and its mode.
ResultRows ==
    IF preserve_history /\ pre.exists
    THEN pre.rows \o NewStreams(df, IdsOf(pre.rows)).rows
    ELSE df.rows

IsPrefix(a, b) == Len(a) <= Len(b) /\ SubSeq(b, 1, Len(a)) = a

\* An id of the frame is already stored, with another ingested_at.
RePresented ==
    \E i \in DOMAIN df.rows, j \in DOMAIN pre.rows :
        /\ df.rows[i].id = pre.rows[j].id
        /\ df.rows[i].ingested_at # pre.rows[j].ingested_at

\* C1 -- no-duplicate invariant: every id present in the streams table
\* appears in exactly one row, whatever batches were loaded.
C1_NoDuplicateIds ==
    (store.exists /\ "id" \in store.cols) =>
        \A i, j \in DOMAIN store.rows :
            store.rows[i].id = store.rows[j].id => i = j

\* C2 -- idempotence: running the HISTORICAL load a second time on the same
\* batch appends nothing; the table has the rows it had after the first load.
C2_Idempotent ==
    (Done /\ repeat) =>
        /\ report.msg \notin {"added", "created", "replaced"}
        /\ Len(store.rows) = Len(pre.rows)
        /\ store.rows = pre.rows

C2_Witness ==
    /\ Done /\ repeat /\ outcome = "committed"
    /\ Len(df.rows) > 0
    /\ report.msg = "nonew"

\* C3 -- merge result of a committed HISTORICAL load of a batch with ids B
\* on a store with ids E: the ids stored afterwards are E \cup B and the
\* number of rows appended is |B \ E|.
C3_MergeResult ==
    (Done /\ preserve_history /\ outcome = "committed" /\ "id" \in df.cols) =>
        /\ IdsOf(store.rows) = IdsOf(pre.rows) \cup IdsOf(df.rows)
        /\ Len(store.rows) - Len(pre.rows)
              = Cardinality(IdsOf(df.rows) \ IdsOf(pre.rows))

\* C4 -- replace mode: a committed REPLACE load leaves exactly the rows of
\* the batch in the table, none of the previous ones.
C4_ReplaceLeavesBatch ==
    (Done /\ ~preserve_history /\ outcome = "committed") =>
        /\ store.exists
        /\ store.rows = df.rows

C4_Witness ==
    /\ Done /\ ~preserve_history /\ outcome = "committed"
    /\ Len(pre.rows) > Len(df.rows)
    /\ Len(df.rows) > 0
    /\ IdsOf(pre.rows) \cap IdsOf(df.rows) = {}
    /\ store.rows = df.rows

\* C5 -- append-only store: no step of a HISTORICAL load deletes or changes
\* a stored row; the rows stored before are a prefix of the rows stored after.
C5_AppendOnly ==
    [][preserve_history =>
          /\ IsPrefix(store.rows, store'.rows)
          /\ (store.exists => store'.exists /\ store'.cols = store.cols)]_vars

C5_Witness ==
    /\ Done /\ preserve_history /\ outcome = "committed"
    /\ report.msg = "added"
    /\ RePresented
    /\ IsPrefix(pre.rows, store.rows)

\* C6 -- validation before write: a load of a batch without the id field
\* aborts and leaves the store as it was, in both modes and every store state.
C6_ValidationBeforeWrite ==
    (Done /\ "id" \notin df.cols) =>
        /\ outcome # "committed"
        /\ store = pre

C8_IndexFailureNotFatal ==
    (Done /\ (fault = "index" \/ warning)) =>
        /\ warning
        /\ raised = "none"
        /\ outcome = "committed"
        /\ store.exists
        /\ store.rows = ResultRows

C8_Witness ==
    /\ Done /\ fault = "index" /\ warning
    /\ report.msg = "added"
    /\ attempted < Len(IndexList)
    /\ store.rows # pre.rows

\* C9 -- empty-diff no-op: a HISTORICAL load whose batch ids are all stored
\* already raises no error and leaves the stored rows as they were.
C9_EmptyDiffNoOp ==
    (/\ Done /\ preserve_history
     /\ pre.exists /\ "id" \in pre.cols /\ "id" \in df.cols
     /\ IdsOf(df.rows) \subseteq IdsOf(pre.rows)
     /\ fault \in {"none", "index"}) =>
        /\ raised = "none"
        /\ outcome = "committed"
        /\ report.msg = "nonew"
        /\ store.rows = pre.rows

C9_Witness ==
    /\ Done /\ preserve_history /\ ~repeat
    /\ pre.exists /\ Len(df.rows) > 0
    /\ IdsOf(df.rows) \subseteq IdsOf(pre.rows)
    /\ RePresented
    /\ outcome = "committed" /\ store.rows = pre.rows

\* C10 -- store lifecycle: the table is ABSENT until the first committed
\* load makes it BOOTSTRAPPED; a committed HISTORICAL load on an existing
\* table (also one a REPLACE has just written) appends or skips and makes it
\* STEADY; a committed REPLACE makes it BOOTSTRAPPED with the rows of the
\* batch only; no step makes an existing table absent.
LifecycleAtDone ==
    /\ (lifecycle = "ABSENT") = ~store.exists
    /\ (Done /\ outcome = "committed") =>
         /\ pre_lifecycle = "ABSENT" => lifecycle = "BOOTSTRAPPED"
         /\ (preserve_history /\ pre_lifecycle # "ABSENT") =>
               /\ lifecycle = "STEADY"
               /\ report.msg \in {"added", "nonew"}
               /\ IsPrefix(pre.rows, store.rows)
         /\ ~preserve_history =>
               /\ lifecycle = "BOOTSTRAPPED"
               /\ store.rows = df.rows
    /\ (Done /\ outcome # "committed") => lifecycle = pre_lifecycle

ReportedAppended ==
    CASE report.msg = "added"   -> report.n
      [] report.msg = "nonew"   -> 0
      [] report.msg = "created" -> report.n
      [] OTHER                  -> -1

\* len(df) is printed by the bootstrap and the replace branch only.
ReportedBatchSize ==
    IF report.msg \in {"created", "replaced"} THEN report.n ELSE -1

\* "Total streams in database: {total_count}" is printed by the branch of
\* the existing table only.
ReportedTotal == report.total

\* C11 -- load report: every committed HISTORICAL load, on an absent table
\* and on an existing one, reports the number of rows appended, the batch
\* size and the total row count of the store, each equal to the actual one.
C11_LoadReport ==
    (Done /\ preserve_history /\ outcome = "committed") =>
        /\ ReportedAppended = Len(store.rows) - Len(pre.rows)
        /\ ReportedBatchSize = Len(df.rows)
        /\ ReportedTotal = Len(store.rows)

\* ==================================================== summary operations
\* get_historical_summary (load_db.py) and HistoricalAnalyzer
\* (historical_analysis.py) read the committed table.

MaxStored == 3     \* rows of a stored table a summary is run on

\* The tables a summary can meet: none, a table written by run_load (every
\* row stamped), and a table written before the stamp was introduced (no
\* ingested_at column).
StampedTables ==
    {[exists |-> TRUE, cols |-> StreamCols \cup {"ingested_at"},
      rows |-> r, indexes |-> IndexNames] :
        r \in SeqsUpTo([id : IDs, viewer_count : Views, ingested_at : Times],
                       MaxStored)}

LegacyTables ==
    {[exists |-> TRUE, cols |-> StreamCols, rows |-> r,
      indexes |-> IndexNames \ {"idx_streams_ingested"}] :
        r \in SeqsUpTo([id : IDs, viewer_count : Views, ingested_at : {Null}],
                       MaxStored)}

\* PRAGMA table_info(streams): the column names; none for a missing table.
TableInfo(t) == IF t.exists THEN t.cols ELSE {}

\* Variant: the column is taken to be there.
HasIngestedAtAlways(t) == TRUE

\* has_ingested_at = 'ingested_at' in columns
HasIngestedAt(t) == "ingested_at" \in TableInfo(t)

\* The columns named by the SELECT list of get_historical_summary, and the
\* ones get_data_summary adds.
SummaryColumns == {"started_at", "user_id", "game_id"}
DataSummaryColumns == SummaryColumns \cup {"language", "viewer_count"}

\* The columns the query built by a summary names: the ingested_at
\* aggregates are in the text only when has_ingested_at.
SummaryQuery(t, columns) ==
    IF HasIngestedAt(t) THEN columns \cup {"ingested_at"} ELSE columns

\* SQLite rejects a query on a missing table or naming a missing column.
QueryFails(t, query) == ~t.exists \/ ~(query \subseteq t.cols)

\* MIN(ingested_at) and MAX(ingested_at); NULL on an empty table.
MinIngested(t) ==
    IF t.rows = << >> THEN Null
    ELSE CHOOSE m \in {t.rows[i].ingested_at : i \in DOMAIN t.rows} :
            \A i \in DOMAIN t.rows : m <= t.rows[i].ingested_at

MaxIngested(t) ==
    IF t.rows = << >> THEN Null
    ELSE CHOOSE m \in {t.rows[i].ingested_at : i \in DOMAIN t.rows} :
            \A i \in DOMAIN t.rows : m >= t.rows[i].ingested_at

\* The row pd.read_sql_query returns for the query of a summary.
SummaryRow(t, op, columns) ==
    [op |-> op, raised |-> "none", printed |-> "none",
     query |-> SummaryQuery(t, columns),
     total_streams |-> Len(t.rows),
     first_ingestion |-> IF HasIngestedAt(t) THEN MinIngested(t)
                                             ELSE NotAvailable,
     last_ingestion  |-> IF HasIngestedAt(t) THEN MaxIngested(t)
                                             ELSE NotAvailable,
     history |-> << >>]

\* SQLite DATE(ingested_at): the calendar day of an instant.  Two
\* consecutive instants of Times fall on one day.
DateOf(time) == (time + 1) \div 2

\* The members of a finite set of numbers in increasing order.
RECURSIVE Ascending(_)
Ascending(S) ==
    IF S = {} THEN << >>
    ELSE LET m == CHOOSE x \in S : \A y \in S : x <= y
         IN  << m >> \o Ascending(S \ {m})

\* SELECT DATE(ingested_at), COUNT(*) ... GROUP BY DATE(ingested_at)
\* ORDER BY ingestion_date
IngestionHistory(t) ==
    LET dates == Ascending({DateOf(t.rows[i].ingested_at) : i \in DOMAIN t.rows})
    IN  [k \in DOMAIN dates |->
            [ingestion_date   |-> dates[k],
             streams_ingested |->
                Cardinality({i \in DOMAIN t.rows :
                                DateOf(t.rows[i].ingested_at) = dates[k]})]]

\* load_db.py lines 82-143.  Every error is caught and printed.
GetHistoricalSummary ==
    /\ summary' =
         IF ~TableExists(store)
         THEN [NoSummary EXCEPT !.op = "get_historical_summary",
                                !.printed = "No historical data found"]
         ELSE IF QueryFails(store, SummaryQuery(store, SummaryColumns))
         THEN [NoSummary EXCEPT !.op = "get_historical_summary",
                                !.query = SummaryQuery(store, SummaryColumns),
                                !.printed = "Error getting historical summary"]
         ELSE [SummaryRow(store, "get_historical_summary", SummaryColumns)
                 EXCEPT !.printed = IF HasIngestedAt(store)
                                    THEN "First ingestion / Last ingestion"
                                    ELSE "Ingestion tracking: Not available"]
    /\ UNCHANGED << loaderVars, transformVars, restVars >>

\* historical_analysis.py lines 24-65.  No table check, no handler.
GetDataSummary ==
    /\ summary' =
         IF QueryFails(store, SummaryQuery(store, DataSummaryColumns))
         THEN [NoSummary EXCEPT !.op = "get_data_summary",
                                !.query = SummaryQuery(store, DataSummaryColumns),
                                !.raised = "DatabaseError"]
         ELSE SummaryRow(store, "get_data_summary", DataSummaryColumns)
    /\ UNCHANGED << loaderVars, transformVars, restVars >>

\* historical_analysis.py lines 171-194.  Without the column no query is
\* run and an empty frame is returned.
GetIngestionHistory ==
    /\ summary' =
         IF ~HasIngestedAt(store)
         THEN [NoSummary EXCEPT !.op = "get_ingestion_history"]
         ELSE IF QueryFails(store, {"ingested_at", "started_at"})
         THEN [NoSummary EXCEPT !.op = "get_ingestion_history",
                                !.query = {"ingested_at", "started_at"},
                                !.raised = "DatabaseError"]
         ELSE [NoSummary EXCEPT !.op = "get_ingestion_history",
                                !.query = {"ingested_at", "started_at"},
                                !.history = IngestionHistory(store)]
    /\ UNCHANGED << loaderVars, transformVars, restVars >>

\* The summaries are run on a database that earlier loads (of this or of
\* an older version of the loader) have left behind.
InitSummary ==
    /\ store \in {Absent} \cup StampedTables \cup LegacyTables
    /\ txn = store
    /\ pre = store
    /\ pc = "idle"
    /\ df = Stamp([cols |-> StreamCols, rows |-> << >>], 1)
    /\ preserve_history = TRUE
    /\ table_exists = FALSE
    /\ existing_ids = {}
    /\ attempted = 0
    /\ report = NoReport
    /\ warning = FALSE
    /\ raised = "none"
    /\ outcome = "none"
    /\ fault = "none"
    /\ repeat = FALSE
    /\ lifecycle = IF store.exists THEN "STEADY" ELSE "ABSENT"
    /\ pre_lifecycle = lifecycle
    /\ summary = NoSummary
    /\ TransformIdle
    /\ RestIdle

NextSummary ==
    \/ GetHistoricalSummary
    \/ GetDataSummary
    \/ GetIngestionHistory

SpecSummary == InitSummary /\ [][NextSummary]_vars

\* A summary operation has run on an existing table.
SummaryRan == summary.op # "none" /\ store.exists

\* The operation met a table without ingested_at: it did not raise, its
\* query does not name the column, and the ingestion fields are 'N/A' (the
\* two summaries) or the result is empty (the ingestion history).
ToleratesLegacy ==
    (SummaryRan /\ "ingested_at" \notin store.cols) =>
        /\ summary.raised = "none"
        /\ summary.printed # "Error getting historical summary"
        /\ "ingested_at" \notin summary.query
        /\ IF summary.op = "get_ingestion_history"
           THEN summary.history = << >> /\ summary.query = {}
           ELSE /\ summary.first_ingestion = NotAvailable
                /\ summary.last_ingestion = NotAvailable

\* The operation reports MIN(ingested_at) and MAX(ingested_at).
ReportsMinMax ==
    /\ summary.raised = "none"
    /\ "ingested_at" \in summary.query
    /\ summary.first_ingestion = MinIngested(store)
    /\ summary.last_ingestion = MaxIngested(store)

\* C12 as stated -- schema tolerance: each of the three summary operations
\* tolerates a table without ingested_at, and with the column present
\* each of them reports min/max ingested_at.
C12_AllReportMinMax ==
    /\ ToleratesLegacy
    /\ (SummaryRan /\ "ingested_at" \in store.cols) => ReportsMinMax

\* C12 -- schema tolerance: each of the three summary operations tolerates
\* a table without ingested_at; with the column present the two summaries
\* report min/max ingested_at, and the ingestion history reports one row
\* per ingestion date, in date order, with the number of rows of that date.
C12_SchemaTolerance ==
    /\ ToleratesLegacy
    /\ (SummaryRan /\ "ingested_at" \in store.cols) =>
          IF summary.op = "get_ingestion_history"
          THEN /\ summary.raised = "none"
               /\ \A k \in DOMAIN summary.history :
                     /\ summary.history[k].streams_ingested > 0
                     /\ \A j \in 1..(k - 1) :
                           summary.history[j].ingestion_date
                              < summary.history[k].ingestion_date
               /\ \A i \in DOMAIN store.rows :
                     \E k \in DOMAIN summary.history :
                        summary.history[k].ingestion_date
                           = DateOf(store.rows[i].ingested_at)
          ELSE ReportsMinMax

C12_Witness ==
    /\ SummaryRan
    /\ "ingested_at" \notin store.cols
    /\ Len(store.rows) > 1
    /\ summary.op = "get_data_summary"
    /\ summary.raised = "none"
    /\ summary.first_ingestion = NotAvailable

\* =========================================================== transform
\* run_transform (scripts/transform.py) and the game lookup it shares with
\* fetch_games (scripts/extract_twitch.py).

MaxGame   == 2     \* game ids of the small inputs are 1..MaxGame
MaxRows   == 2     \* stream rows in a small raw CSV
MaxRef    == 2     \* rows in the games CSV
MaxAnswer == 2     \* rows in one answer of the /games endpoint
MaxLookup == 201   \* ids handed to one lookup

\* range(0, len(ids), 100) and ids[i:i+100]
ChunkSize == 100

\* np.nan in a numeric column (hour_of_day).
NaN == -1

\* ------------------------------------------------------------ timestamps
\* A started_at cell: an ISO 8601 text with a UTC offset (kind "ts": day
\* counts the days since 1970-01-01 of the local date, off is the offset
\* in hours), a text that is no timestamp ("bad"), or an empty cell.
FirstDay == 19791  \* 2024-03-09

Timestamp(day, hour, off) ==
    [kind |-> "ts", day |-> day, hour |-> hour, off |-> off]

BadText   == [kind |-> "bad",   day |-> 0, hour |-> 0, off |-> 0]
EmptyCell == [kind |-> "empty", day |-> 0, hour |-> 0, off |-> 0]
NaT       == [kind |-> "NaT",   day |-> 0, hour |-> 0, off |-> 0]

\* The started_at cells of the small inputs.
SomeCells == {Timestamp(FirstDay, 14, 0), BadText}

\* The started_at cells of the one-row inputs: a week of days, every hour,
\* three offsets.
AllCells ==
    {Timestamp(FirstDay + d, h, o) : d \in 0..6, h \in 0..23, o \in {-2, 0, 2}}
    \cup {BadText, EmptyCell}

\* Variant: the offset of the text is dropped instead of applied.
ToDatetimeKeepsLocal(cell) ==
    IF cell.kind = "ts" THEN Timestamp(cell.day, cell.hour, 0) ELSE NaT

\* pd.to_datetime(..., errors="coerce", utc=True): the instant in UTC, NaT
\* for what does not parse.
ToDatetime(cell) ==
    IF cell.kind = "ts"
    THEN LET hours == cell.day * 24 + cell.hour - cell.off
         IN  Timestamp(hours \div 24, hours % 24, 0)
    ELSE NaT

\* Variant: a missing instant has hour 0.
HourZeroForNaT(ts) == IF ts.kind = "ts" THEN ts.hour ELSE 0

\* .dt.hour
Hour(ts) == IF ts.kind = "ts" THEN ts.hour ELSE NaN

DayNames == << "Monday", "Tuesday", "Wednesday", "Thursday", "Friday",
               "Saturday", "Sunday" >>

\* .dt.day_name(); 1970-01-01 was a Thursday.
DayName(ts) ==
    IF ts.kind = "ts" THEN DayNames[((ts.day + 3) % 7) + 1] ELSE "NaN"

\* .isin(["Saturday", "Sunday"])
IsWeekend(weekday) == weekday \in {"Saturday", "Sunday"}

\* ------------------------------------------------------------- game keys
\* A game id after astype(str): the text of an integer ("7"), of a float
\* ("7.0") or of a missing value ("nan").  pd.read_csv makes the game_id
\* column a float column as soon as one cell of it is empty.
Key(n, f) == [n |-> n, f |-> f]

NanKey == Key(0, "nan")

\* The decimal digits of a natural number, as character codes.
RECURSIVE Digits(_)
Digits(n) ==
    IF n < 10 THEN << 48 + n >> ELSE Digits(n \div 10) \o << 48 + (n % 10) >>

\* The characters of a key.
Text(k) ==
    CASE k.f = "int"   -> Digits(k.n)
      [] k.f = "float" -> Digits(k.n) \o << 46, 48 >>
      [] OTHER         -> << 110, 97, 110 >>

\* Python's < on str.
RECURSIVE TextLess(_, _)
TextLess(a, b) ==
    IF b = << >> THEN FALSE
    ELSE IF a = << >> THEN TRUE
    ELSE IF Head(a) # Head(b) THEN Head(a) < Head(b)
    ELSE TextLess(Tail(a), Tail(b))

KeyLess(a, b) == TextLess(Text(a), Text(b))

\* Series.unique(): the values in order of first appearance.
Unique(q) ==
    LET first == SelectSeq([i \in DOMAIN q |-> i],
                           LAMBDA i : \A j \in 1..(i - 1) : q[j] # q[i])
    IN  [k \in DOMAIN first |-> q[first[k]]]

\* Series.astype(str) on the game_id column read from a CSV.
AsTypeStr(column) ==
    LET float == \E i \in DOMAIN column : column[i] = Null
    IN  [i \in DOMAIN column |->
            IF column[i] = Null THEN NanKey
            ELSE Key(column[i], IF float THEN "float" ELSE "int")]

\* -------------------------------------------------------------- inputs
\* The columns every raw streams CSV of the model has (thumbnail_url is
\* not in the keep list), and the ones it may have.
BaseColumns == {"id", "user_id", "viewer_count", "language", "thumbnail_url"}

\* pd.read_csv(streams_csv): cells gives game_id and started_at of each
\* row; a column the CSV does not have yields no cell values.
RawStreams(columns, cells) ==
    [cols |-> columns,
     rows |-> [i \in DOMAIN cells |->
                 [id |-> i,
                  game_id    |-> cells[i].game_id,
                  started_at |-> cells[i].started_at]]]

SmallStreams ==
    {RawStreams(BaseColumns \cup {"game_id", "started_at"} \cup extra, c) :
        extra \in {{}, {"game_name"}},
        c \in SeqsUpTo([game_id : 0..MaxGame, started_at : SomeCells],
                       MaxRows)}
    \cup
    {RawStreams(BaseColumns \cup {"game_id"}, c) :
        c \in SeqsUpTo([game_id : 0..MaxGame, started_at : {EmptyCell}],
                       MaxRows)}
    \cup
    {RawStreams(BaseColumns \cup {"started_at"}, c) :
        c \in SeqsUpTo([game_id : {Null}, started_at : SomeCells], MaxRows)}

\* One row, any started_at cell.
OneRowStreams ==
    {RawStreams(BaseColumns \cup {"game_id", "started_at"},
                << [game_id |-> 1, started_at |-> cell] >>) :
        cell \in AllCells}

\* n rows with n different game ids.
BulkStreams ==
    {RawStreams(BaseColumns \cup {"game_id", "started_at"},
                [i \in 1..n |->
                    [game_id |-> i, started_at |-> Timestamp(FirstDay, 14, 0)]]) :
        n \in {ChunkSize + 1, MaxLookup}}

\* A reference row as read: the id is an integer in the games CSV (src
\* "csv") and a text in the JSON of the /games endpoint (src "api").
NoName == "NaN"

RefRow(n, name, src) == [game_id |-> n, game_name |-> name, src |-> src]

\* pd.read_csv(games_csv), or the empty frame when the file is missing.
GamesFiles ==
    {[exists |-> FALSE, rows |-> << >>]}
    \cup
    {[exists |-> TRUE, rows |-> r] :
        r \in SeqsUpTo({RefRow(n, name, "csv") :
                           n \in 1..MaxGame, name \in {NoName, "Alpha"}},
                       MaxRef)}

\* r.json().get("data", []) of one call.
Answers ==
    SeqsUpTo({RefRow(n, "Beta", "api") : n \in 1..MaxGame}, MaxAnswer)

\* The processed CSV an earlier run has left on disk.
OldProcessed == [cols |-> << "id" >>, rows |-> << >>, written |-> FALSE]

\* ------------------------------------------------------ run_transform
\* lines 27-35 and 44: the temporal columns and the text keys.
Prepared(csv) ==
    LET keys == AsTypeStr([i \in DOMAIN csv.rows |-> csv.rows[i].game_id])
    IN  [cols |-> csv.cols \cup {"hour_of_day", "weekday", "is_weekend"},
         rows |-> [i \in DOMAIN csv.rows |->
            LET ts == IF "started_at" \in csv.cols
                      THEN ToDatetime(csv.rows[i].started_at) ELSE NaT
            IN  [id          |-> csv.rows[i].id,
                 game_id     |-> keys[i],
                 started_at  |-> ts,
                 hour_of_day |-> Hour(ts),
                 weekday     |-> DayName(ts),
                 is_weekend  |-> IsWeekend(DayName(ts)),
                 game_name   |-> NoName]]]

\* A reference id as a text key: str(7) and "7" are the same text.
RefKey(row) == Key(row.game_id, "int")

\* line 47: set(g["game_id"].astype(str)), empty for an empty frame.
Have(ref) == {RefKey(ref[i]) : i \in DOMAIN ref}

\* Series.dropna(): removes the missing values; a text, also the text
\* "nan", is not one.
DropNa(keys) == SelectSeq(keys, LAMBDA k : k.f # "missing")

\* line 48: sorted({gid for gid in s["game_id"].dropna().astype(str).unique()
\*                  if gid and gid not in have})
Need(frame, ref) ==
    SortSeq(SelectSeq(Unique(DropNa([i \in DOMAIN frame.rows |->
                                        frame.rows[i].game_id])),
                      LAMBDA k : k \notin Have(ref)),
            KeyLess)

\* lines 23-48.  s["game_id"] at line 48 raises KeyError on a frame
\* without the column.
ReadAndPrepare ==
    /\ tpc = "idle"
    /\ s' = Prepared(streams_csv)
    /\ g' = games_csv.rows
    /\ IF "game_id" \notin streams_csv.cols
       THEN /\ terr' = "KeyError"
            /\ tpc' = "done"
            /\ UNCHANGED need
       ELSE /\ need' = Need(s', g')
            /\ tpc' = IF need' # << >> THEN "lookup" ELSE "join"
            /\ UNCHANGED terr
    /\ UNCHANGED << streams_csv, games_csv, proc_csv, pos, calls, fetched,
                    failed >>
    /\ UNCHANGED << loaderVars, summary, restVars >>

\* ---------------------------------------------------------- the lookup
\* Variant: the slice is one id short of the step.
ChunkShort(ids, i) ==
    SubSeq(ids, i + 1, IF i + ChunkSize - 1 < Len(ids)
                       THEN i + ChunkSize - 1 ELSE Len(ids))

\* ids[i:i+100]
Chunk(ids, i) ==
    SubSeq(ids, i + 1, IF i + ChunkSize < Len(ids)
                       THEN i + ChunkSize ELSE Len(ids))

\* Where the caller of the lookup goes on when the loop has ended.
AfterLookup == IF tpc = "lookup" THEN "join" ELSE "returned"

\* extract_twitch.py lines 43-45: fetch_games returns an empty frame for
\* an empty id list, else it enters the loop.
FetchGames ==
    /\ tpc = "call_fetch_games"
    /\ tpc' = IF need = << >> THEN "returned" ELSE "fetch_games"
    /\ UNCHANGED << streams_csv, games_csv, proc_csv, s, g, need, pos, calls,
                    fetched, failed, terr >>
    /\ UNCHANGED << loaderVars, summary, restVars >>

\* One iteration of `for i in range(0, len(ids), 100)` in fetch_games_chunk
\* (transform.py 54-60) and in fetch_games (extract_twitch.py 47-53): the
\* call succeeds and its rows are added to out.
LookupCall ==
    /\ tpc \in {"lookup", "fetch_games"}
    /\ pos < Len(need)
    /\ calls' = Append(calls, Chunk(need, pos))
    /\ \E answer \in Answers : fetched' = fetched \o answer
    /\ pos' = pos + ChunkSize
    /\ tpc' = IF pos' < Len(need) THEN tpc ELSE AfterLookup
    /\ UNCHANGED << streams_csv, games_csv, proc_csv, s, g, need, failed,
                    terr >>
    /\ UNCHANGED << loaderVars, summary, restVars >>

\* Variant: the failed call is skipped and the loop goes on.
LookupErrorSkipped == "continue"

\* r.raise_for_status(): nothing catches the HTTPError.
LookupErrorExit == "raise"

\* The call of this iteration fails (transform.py 57-58,
\* extract_twitch.py 50-51).
LookupFails ==
    /\ tpc \in {"lookup", "fetch_games"}
    /\ pos < Len(need)
    /\ calls' = Append(calls, Chunk(need, pos))
    /\ failed' = TRUE
    /\ IF LookupErrorExit = "raise"
       THEN /\ terr' = "HTTPError"
            /\ tpc' = "done"
            /\ UNCHANGED pos
       ELSE /\ pos' = pos + ChunkSize
            /\ tpc' = IF pos' < Len(need) THEN tpc ELSE AfterLookup
            /\ UNCHANGED terr
    /\ UNCHANGED << streams_csv, games_csv, proc_csv, s, g, need, fetched >>
    /\ UNCHANGED << loaderVars, summary, restVars >>

\* ------------------------------------------------------ join and output
\* DataFrame.drop_duplicates(subset=["game_id"]): the first row of each id
\* stays.  The ids are compared as they are: the integer 7 of the CSV and
\* the text "7" of the JSON are different values.
DropDuplicates(ref) ==
    LET first == SelectSeq([i \in DOMAIN ref |-> i],
                           LAMBDA i : \A j \in 1..(i - 1) :
                                         \/ ref[j].game_id # ref[i].game_id
                                         \/ ref[j].src # ref[i].src)
    IN  [k \in DOMAIN first |-> ref[first[k]]]

\* lines 63-69: the fetched rows are appended and the frame de-duplicated,
\* when there was something to look up and something came back.
Resolved(ref, ids, rows) ==
    IF ids # << >> /\ rows # << >>
    THEN DropDuplicates(ref \o rows)
    ELSE ref

\* The rows of the reference frame whose key (line 73) is k, in order.
Matches(ref, k) == SelectSeq(ref, LAMBDA r : RefKey(r) = k)

\* line 77: s.merge(g[["game_id","game_name"]], how="left", on="game_id").
\* A left row stays once when nothing matches and comes once per match
\* otherwise.  When both frames have a game_name column the result has
\* game_name_x and game_name_y and no game_name, which lines 78-79 then add
\* empty.  line 80: fillna("Unknown").
RECURSIVE Merge(_, _, _)
Merge(rows, ref, collision) ==
    IF rows = << >> THEN << >>
    ELSE IF Len(rows) = 1
    THEN LET row == rows[1]
             m   == Matches(ref, row.game_id)
             fill(name) == IF collision \/ name = NoName THEN "Unknown"
                           ELSE name
         IN  IF m = << >>
             THEN << [row EXCEPT !.game_name = "Unknown"] >>
             ELSE [j \in DOMAIN m |->
                     [row EXCEPT !.game_name = fill(m[j].game_name)]]
    ELSE LET half == Len(rows) \div 2
         IN  Merge(SubSeq(rows, 1, half), ref, collision)
                \o Merge(SubSeq(rows, half + 1, Len(rows)), ref, collision)

\* The columns of s after lines 77-80.
MergedColumns(columns) ==
    IF "game_name" \in columns
    THEN (columns \ {"game_name"})
            \cup {"game_name_x", "game_name_y", "game_name"}
    ELSE columns \cup {"game_name"}

\* lines 84-92
keep == << "id", "user_id", "user_login", "user_name", "game_id",
           "game_name", "type", "title", "viewer_count", "language",
           "broadcaster_language", "started_at", "hour_of_day", "weekday",
           "is_weekend", "tags", "is_mature" >>

\* line 93: present = [c for c in keep if c in s.columns]
Present(columns) == SelectSeq(keep, LAMBDA c : c \in columns)

\* lines 63-99: resolve, join, project, write the processed CSV.
JoinAndWrite ==
    /\ tpc = "join"
    /\ g' = Resolved(g, need, fetched)
    /\ s' = [cols |-> MergedColumns(s.cols),
             rows |-> Merge(s.rows, g', "game_name" \in s.cols)]
    /\ proc_csv' = [cols |-> Present(s'.cols), rows |-> s'.rows,
                    written |-> TRUE]
    /\ tpc' = "done"
    /\ UNCHANGED << streams_csv, games_csv, need, pos, calls, fetched, failed,
                    terr >>
    /\ UNCHANGED << loaderVars, summary, restVars >>

\* ------------------------------------------------------ specification
\* run_transform starts on a raw streams CSV and a games CSV (or none);
\* fetch_games starts on a list of distinct ids.
InitTransform ==
    /\ LoaderInit
    /\ summary = NoSummary
    /\ RestIdle
    /\ proc_csv = OldProcessed
    /\ s = [cols |-> {}, rows |-> << >>]
    /\ g = << >>
    /\ pos = 0
    /\ calls = << >>
    /\ fetched = << >>
    /\ failed = FALSE
    /\ terr = "none"
    /\ \/ /\ tpc = "idle"
          /\ need = << >>
          /\ \/ streams_csv \in SmallStreams /\ games_csv \in GamesFiles
             \/ /\ streams_csv \in OneRowStreams \cup BulkStreams
                /\ games_csv \in {[exists |-> FALSE, rows |-> << >>]}
       \/ /\ tpc = "call_fetch_games"
          /\ streams_csv = [cols |-> {}, rows |-> << >>]
          /\ games_csv = [exists |-> FALSE, rows |-> << >>]
          /\ \E n \in 0..MaxLookup : need = [i \in 1..n |-> Key(i, "int")]

NextTransform ==
    \/ ReadAndPrepare
    \/ FetchGames
    \/ LookupCall
    \/ LookupFails
    \/ JoinAndWrite

SpecTransform == InitTransform /\ [][NextTransform]_vars

\* -------------------------------------------------- transform properties
\* run_transform has returned its output.
Transformed == tpc = "done" /\ terr = "none" /\ proc_csv.written

\* The names the reference set at the join has for a key.
NamesFor(k) ==
    {g[i].game_name : i \in {j \in DOMAIN g : RefKey(g[j]) = k
                                            /\ g[j].game_name # NoName}}

\* The name rule of the join for the rows of the output.
NameRule ==
    \A i \in DOMAIN proc_csv.rows :
        LET row == proc_csv.rows[i]
        IN  /\ row.game_name # NoName
            /\ NamesFor(row.game_id) = {} => row.game_name = "Unknown"
            /\ NamesFor(row.game_id) # {} =>
                  row.game_name \in NamesFor(row.game_id)

\* C13 -- unknown-game fallback: every row of the output of run_transform
\* has a game_name; it is "Unknown" when no reference row with a name has
\* the row's game_id after the resolution, and the name of such a
\* reference row otherwise.
C13_UnknownFallback ==
    Transformed =>
        /\ \E i \in DOMAIN proc_csv.cols : proc_csv.cols[i] = "game_name"
        /\ NameRule

\* No two rows of the reference set at the join have the same text key.
UniqueKeys == \A i, j \in DOMAIN g : RefKey(g[i]) = RefKey(g[j]) => i = j

\* The name rule on inputs whose raw streams CSV has no game_name column
\* and whose reference set has one row per key.
NameRuleWithoutCollision ==
    (Transformed /\ "game_name" \notin streams_csv.cols /\ UniqueKeys) =>
        NameRule

\* The raw row an output row comes from (the model numbers the raw rows by
\* their id).
RawRow(row) == streams_csv.rows[row.id]

\* The hours from 1970-01-01T00:00Z to the instant a started_at text names.
UtcHours(cell) == 24 * cell.day + cell.hour - cell.off

\* C14 -- temporal derivation: for every row with a parsable started_at the
\* output of run_transform has hour_of_day = the UTC hour (0..23), weekday =
\* the UTC day name and is_weekend = (weekday is Saturday or Sunday);
\* 2024-03-09T14:30Z gives 14, Saturday, true.
C14_TemporalDerivation ==
    (Transformed /\ "started_at" \in streams_csv.cols) =>
        \A i \in DOMAIN proc_csv.rows :
            LET row  == proc_csv.rows[i]
                cell == RawRow(row).started_at
            IN  cell.kind = "ts" =>
                  /\ row.hour_of_day \in 0..23
                  /\ row.hour_of_day = UtcHours(cell) % 24
                  /\ row.weekday =
                        DayNames[(((UtcHours(cell) \div 24) + 3) % 7) + 1]
                  /\ row.is_weekend = (row.weekday \in {"Saturday", "Sunday"})
                  /\ cell = Timestamp(FirstDay, 14, 0) =>
                        /\ row.hour_of_day = 14
                        /\ row.weekday = "Saturday"
                        /\ row.is_weekend
                  /\ cell = Timestamp(FirstDay + 1, 23, -2) =>
                        /\ row.hour_of_day = 1
                        /\ row.weekday = "Monday"
                        /\ ~row.is_weekend

C14_Witness ==
    /\ Transformed
    /\ Len(proc_csv.rows) = 1
    /\ RawRow(proc_csv.rows[1]).started_at = Timestamp(FirstDay + 1, 23, -2)
    /\ proc_csv.rows[1].weekday = "Monday"
    /\ proc_csv.rows[1].hour_of_day = 1

\* The started_at of a raw row is unknown: the CSV has no such column, or
\* the cell is empty or does not parse.
UnknownStart(i) ==
    \/ "started_at" \notin streams_csv.cols
    \/ streams_csv.rows[i].started_at.kind # "ts"

\* C15 -- unknown temporal state: a row whose started_at does not parse,
\* and every row of an input without a started_at column, is in the output
\* of run_transform with hour_of_day and weekday null and is_weekend false;
\* run_transform does not fail and drops no row because of it.
C15_UnknownTemporal ==
    (tpc = "done" /\ "game_id" \in streams_csv.cols /\ terr # "HTTPError") =>
        /\ Transformed
        /\ \A i \in DOMAIN streams_csv.rows :
              UnknownStart(i) =>
                /\ \E k \in DOMAIN proc_csv.rows : proc_csv.rows[k].id = i
                /\ \A k \in DOMAIN proc_csv.rows :
                      proc_csv.rows[k].id = i =>
                        /\ proc_csv.rows[k].hour_of_day = NaN
                        /\ proc_csv.rows[k].weekday = "NaN"
                        /\ proc_csv.rows[k].is_weekend = FALSE

C15_Witness ==
    /\ Transformed
    /\ "started_at" \in streams_csv.cols
    /\ Len(streams_csv.rows) = 2
    /\ streams_csv.rows[1].started_at = BadText
    /\ streams_csv.rows[2].started_at.kind = "ts"
    /\ Len(proc_csv.rows) = 2
    /\ proc_csv.rows[1].hour_of_day = NaN
    /\ proc_csv.rows[2].hour_of_day = 14

\* The state belongs to a run of run_transform (not of fetch_games).
InTransform == "id" \in streams_csv.cols

\* All ids requested so far, call after call.
RECURSIVE Flatten(_)
Flatten(chunks) ==
    IF chunks = << >> THEN << >>
    ELSE Flatten(SubSeq(chunks, 1, Len(chunks) - 1)) \o chunks[Len(chunks)]

Requested == Flatten(calls)

\* The game ids that occur in the stream batch (rows whose game_id cell is
\* not empty), as texts, without those the games CSV has.
UnknownIds ==
    {s.rows[k].game_id : k \in {j \in DOMAIN s.rows :
                                    RawRow(s.rows[j]).game_id # Null}}
        \ Have(games_csv.rows)

\* The lookup of run_transform has ended without an error.
Resolution == InTransform /\ tpc \in {"join", "done"} /\ terr = "none"

RequestsExactly(ids) ==
    /\ {Requested[i] : i \in DOMAIN Requested} = ids
    /\ \A i, j \in DOMAIN Requested : Requested[i] = Requested[j] => i = j
    /\ ids = {} => calls = << >>

\* C16 -- lazy reference resolution: run_transform requests exactly the
\* game ids that occur in the stream batch and are absent from the known
\* reference table (compared as strings), each once, and makes no lookup
\* call when there is none.
C16_LazyResolution == Resolution => RequestsExactly(UnknownIds)

\* The same for batches in which no game_id cell is empty.
RequestsWithoutMissing ==
    (Resolution /\ \A i \in DOMAIN streams_csv.rows :
                      streams_csv.rows[i].game_id # Null) =>
        RequestsExactly(UnknownIds)

\* The lookup loop has run to its end.
LookupEnded ==
    \/ tpc \in {"join", "returned"}
    \/ InTransform /\ tpc = "done" /\ terr = "none"

\* C17 -- lookup chunking: every game-lookup call of run_transform
\* (fetch_games_chunk) and of fetch_games carries between 1 and 100 ids;
\* the chunks are consecutive disjoint slices of the requested id list
\* whose concatenation is that list, so n ids take ceil(n/100) calls and
\* no id takes none.
C17_LookupChunking ==
    /\ \A k \in DOMAIN calls :
          /\ Len(calls[k]) \in 1..100
          /\ \A e \in DOMAIN calls[k] :
                calls[k][e] = need[100 * (k - 1) + e]
          /\ k < Len(calls) => Len(calls[k]) = 100
    /\ Len(Requested) <= Len(need)
    /\ LookupEnded =>
          /\ Requested = need
          /\ Len(calls) = (Len(need) + 99) \div 100
          /\ need = << >> => calls = << >>

C17_Witness ==
    /\ InTransform /\ Transformed
    /\ Len(need) > 200
    /\ Len(calls) = 3
    /\ Len(calls[1]) = 100 /\ Len(calls[2]) = 100 /\ Len(calls[3]) = 1

\* C18 -- reference-set de-duplication: when run_transform joins the
\* stream rows to the reference set, the set holds at most one row per
\* game_id (as a text key), whatever the games CSV and the lookup answers
\* held, also when no lookup was needed or the lookup returned nothing.
C18_ReferenceDeduplicated == Transformed => UniqueKeys

\* The same for runs in which the lookup returned rows and the games CSV
\* was empty or missing.
DeduplicatedAfterLookup ==
    (Transformed /\ fetched # << >> /\ games_csv.rows = << >>) => UniqueKeys

\* A lookup call of run_transform has failed: run_transform has ended with
\* the error and the processed CSV is the one that was there before.
FailurePropagated ==
    (InTransform /\ failed) =>
        /\ tpc = "done"
        /\ terr = "HTTPError"
        /\ proc_csv = OldProcessed
        /\ ~proc_csv.written

\* C19 -- lookup failure propagates: if a game-lookup call made during
\* run_transform fails, the error reaches the caller of run_transform, no
\* further chunk is requested and no processed output is written.
C19_LookupFailure ==
    /\ []FailurePropagated
    /\ [][(InTransform /\ failed) =>
             calls' = calls /\ proc_csv' = proc_csv]_vars

C19_Witness ==
    /\ InTransform /\ failed
    /\ Len(need) > 100
    /\ Len(calls) = 1
    /\ terr = "HTTPError"
    /\ proc_csv = OldProcessed

\* The columns run_transform itself adds to the working table.
DerivedColumns == {"hour_of_day", "weekday", "is_weekend", "game_name"}

ColumnsOf(frame) == {frame.cols[i] : i \in DOMAIN frame.cols}

\* The output has the columns of keep that the working table has, in the
\* order of keep, and nothing that the input did not have or the
\* transform did not derive.
Projected ==
    /\ proc_csv.cols = SelectSeq(keep, LAMBDA c : c \in s.cols)
    /\ ColumnsOf(proc_csv) \subseteq {keep[i] : i \in DOMAIN keep}
    /\ ColumnsOf(proc_csv) \subseteq streams_csv.cols \cup DerivedColumns
    /\ "thumbnail_url" \notin ColumnsOf(proc_csv)

\* C20 -- output projection: for every input run_transform succeeds and
\* its output columns are exactly the members of the keep list that the
\* working table has, in the list's order; a column missing from the input
\* (for example game_id) is left out and never made up, and no column
\* outside the list is emitted.
C20_OutputProjection ==
    (InTransform /\ tpc = "done" /\ ~failed) => Transformed /\ Projected

\* The same for inputs that have a game_id column.
ProjectedWithGameId ==
    (InTransform /\ tpc = "done" /\ ~failed
        /\ "game_id" \in streams_csv.cols) => Transformed /\ Projected

\* ====================================================== concurrent loads
\* Two HISTORICAL run_load calls on one database (two scheduler runs, or a
\* retry started while the first attempt is still running).  Each call
\* opens its own connection.  The reads see the committed table; the first
\* write of a connection takes the write lock of the database, which is
\* held until the with-block commits or rolls back.

Procs == {1, 2}

\* The loader variables other than the committed store.
loaderLocals == << txn, pc, df, preserve_history, table_exists, existing_ids,
                   attempted, report, warning, raised, outcome, fault, pre,
                   repeat, lifecycle, pre_lifecycle >>

\* What no step of the two loads touches.
outsideLoads == << loaderLocals, summary, transformVars, pipelineVars,
                  authVars >>

\* The locals of a run_load call that has not started.
IdleLoad == [pc |-> "idle",
             df |-> Stamp([cols |-> StreamCols, rows |-> << >>], 1),
             table_exists |-> FALSE, existing_ids |-> {},
             txn |-> Absent, raised |-> "none", appended |-> {}]

\* lines 31-38 of run_load(preserve_history=True).
LoadStart(p) ==
    /\ loaders[p].pc = "idle"
    /\ \E csv \in {c \in CsvFiles : "id" \in c.cols}, now \in Times :
         loaders' = [loaders EXCEPT ![p].df = Stamp(csv, now),
                                    ![p].pc = "check"]
    /\ UNCHANGED << store, lock >>
    /\ UNCHANGED outsideLoads

\* lines 41-42, on the committed table.
LoadCheckTable(p) ==
    /\ loaders[p].pc = "check"
    /\ loaders' = [loaders EXCEPT ![p].table_exists = TableExists(store),
                                  ![p].pc = IF TableExists(store)
                                            THEN "read" ELSE "write"]
    /\ UNCHANGED << store, lock >>
    /\ UNCHANGED outsideLoads

\* lines 46-49: the SELECT runs outside any write transaction and takes
\* no lock that outlives it.
LoadReadExisting(p) ==
    /\ loaders[p].pc = "read"
    /\ loaders' = [loaders EXCEPT ![p].existing_ids = SelectDistinctId(store),
                                  ![p].pc = "write"]
    /\ UNCHANGED << store, lock >>
    /\ UNCHANGED outsideLoads

\* The frame the append branch of load p writes.
LoadNewStreams(p) == NewStreams(loaders[p].df, loaders[p].existing_ids)

\* lines 51-63: what the data write of load p makes of the table t.
LoadWrite(p, t) ==
    IF loaders[p].table_exists
    THEN IF Len(LoadNewStreams(p).rows) > 0
         THEN ToSqlAppend(t, LoadNewStreams(p))
         ELSE t
    ELSE ToSqlReplace(t, loaders[p].df)

\* lines 51-63 when no other connection holds the write lock.
LoadWriteData(p) ==
    /\ loaders[p].pc = "write"
    /\ lock = 0
    /\ lock' = p
    /\ loaders' = [loaders EXCEPT ![p].txn = LoadWrite(p, store),
                                  ![p].pc = "index"]
    /\ UNCHANGED store
    /\ UNCHANGED outsideLoads

\* lines 51-63 when another connection holds the write lock for longer
\* than the busy timeout: "database is locked", the with-block rolls back.
LoadWriteLocked(p) ==
    /\ loaders[p].pc = "write"
    /\ lock \notin {0, p}
    /\ loaders' = [loaders EXCEPT ![p].raised = "OperationalError",
                                  ![p].pc = "done"]
    /\ UNCHANGED << store, lock >>
    /\ UNCHANGED outsideLoads

\* lines 69-78 and the end of the with-block: the indexes, then COMMIT.
LoadIndexAndCommit(p) ==
    /\ loaders[p].pc = "index"
    /\ lock = p
    /\ store' = CommitTo(store, CreateIndexes(loaders[p].txn, 0))
    /\ lock' = 0
    /\ loaders' = [loaders EXCEPT
          ![p].pc = "done",
          ![p].appended = IF loaders[p].table_exists
                          THEN IdsOf(SubSeq(store'.rows, Len(store.rows) + 1,
                                            Len(store'.rows)))
                          ELSE {}]
    /\ UNCHANGED outsideLoads

\* Two loads are about to start on a database that earlier loads have left.
InitConcurrent ==
    /\ store \in {Absent} \cup {t \in StampedTables : Len(t.rows) <= 1}
    /\ txn = store
    /\ pre = store
    /\ pc = "idle"
    /\ df = Stamp([cols |-> StreamCols, rows |-> << >>], 1)
    /\ preserve_history = TRUE
    /\ table_exists = FALSE
    /\ existing_ids = {}
    /\ attempted = 0
    /\ report = NoReport
    /\ warning = FALSE
    /\ raised = "none"
    /\ outcome = "none"
    /\ fault = "none"
    /\ repeat = FALSE
    /\ lifecycle = IF store.exists THEN "STEADY" ELSE "ABSENT"
    /\ pre_lifecycle = lifecycle
    /\ summary = NoSummary
    /\ TransformIdle
    /\ loaders = [p \in Procs |-> IdleLoad]
    /\ lock = 0
    /\ PipelineIdle
    /\ AuthIdle

NextConcurrent ==
    \E p \in Procs :
        \/ LoadStart(p)
        \/ LoadCheckTable(p)
        \/ LoadReadExisting(p)
        \/ LoadWriteData(p)
        \/ LoadWriteLocked(p)
        \/ LoadIndexAndCommit(p)

SpecConcurrent == InitConcurrent /\ [][NextConcurrent]_vars

\* C21 -- single logical transaction under concurrency: the existing-id
\* read, the diff and the append of one HISTORICAL load are atomic with
\* respect to any other load, so two HISTORICAL loads of overlapping
\* batches whose steps interleave cannot both append the same id.
C21_NoDoubleAppend == loaders[1].appended \cap loaders[2].appended = {}

\* ------------------------------------------------------------ provenance
\* The ingested_at values of stored rows never decrease in insertion order.
NonDecreasing(rows) ==
    \A i, j \in DOMAIN rows : i <= j => rows[i].ingested_at <= rows[j].ingested_at

\* The rows the load that has just committed has inserted all carry the
\* stamp of its frame.
OneStampPerLoad ==
    (Done /\ outcome = "committed") =>
        /\ \A i, j \in DOMAIN df.rows :
              df.rows[i].ingested_at = df.rows[j].ingested_at
        /\ \A k \in DOMAIN store.rows :
              (~preserve_history \/ k > Len(pre.rows) \/ ~pre.exists) =>
                 \E i \in DOMAIN df.rows :
                    store.rows[k].ingested_at = df.rows[i].ingested_at

\* A HISTORICAL load leaves the stored rows, their stamps included, as
\* they were.
StampsKept ==
    (Done /\ preserve_history /\ pre.exists) => IsPrefix(pre.rows, store.rows)

\* C22 -- provenance stamping: all rows inserted by one run_load call
\* carry the same ingested_at, taken at that call; the ingested_at of a
\* stored row is not changed by later HISTORICAL loads that present its id
\* again; so the ingested_at values in the store are non-decreasing in
\* insertion order.
C22_Provenance ==
    /\ OneStampPerLoad
    /\ StampsKept
    /\ store.exists => NonDecreasing(store.rows)

\* The parts of the claim that do not depend on the clock.
StampedOnceAndKept == OneStampPerLoad /\ StampsKept

\* The order of the stamps when datetime.now() has not gone back between
\* the loads.
NonDecreasingUnderMonotoneClock ==
    (/\ Done /\ preserve_history /\ outcome = "committed"
     /\ NonDecreasing(pre.rows)
     /\ \A i \in DOMAIN pre.rows, j \in DOMAIN df.rows :
           pre.rows[i].ingested_at <= df.rows[j].ingested_at)
        => NonDecreasing(store.rows)

\* ========================================================== legacy store
\* run_load on a database whose streams table was written before the
\* ingestion stamp was introduced.
InitLegacy ==
    /\ store \in LegacyTables
    /\ txn = store
    /\ pre = store
    /\ pc = "idle"
    /\ df = Stamp([cols |-> StreamCols, rows |-> << >>], 1)
    /\ preserve_history = TRUE
    /\ table_exists = FALSE
    /\ existing_ids = {}
    /\ attempted = 0
    /\ report = NoReport
    /\ warning = FALSE
    /\ raised = "none"
    /\ outcome = "none"
    /\ fault = "none"
    /\ repeat = FALSE
    /\ lifecycle = "STEADY"
    /\ pre_lifecycle = "STEADY"
    /\ summary = NoSummary
    /\ TransformIdle
    /\ RestIdle

SpecLegacy == InitLegacy /\ [][Next]_vars

\* C23 -- legacy store append: a HISTORICAL load of a batch with new ids
\* into an existing table without the ingested_at column succeeds and
\* appends exactly the new rows; the legacy rows stay without a
\* provenance value.
C23_LegacyAppend ==
    (/\ Done /\ preserve_history
     /\ pre.exists /\ "ingested_at" \notin pre.cols
     /\ "id" \in df.cols
     /\ IdsOf(df.rows) \ IdsOf(pre.rows) # {}
     /\ fault = "none") =>
        /\ outcome = "committed"
        /\ raised = "none"
        /\ IsPrefix(pre.rows, store.rows)
        /\ IdsOf(store.rows) = IdsOf(pre.rows) \cup IdsOf(df.rows)
        /\ \A i \in 1..Len(pre.rows) : store.rows[i].ingested_at = Null

\* ============================================================= pipeline
\* One pipeline run after the other: scripts/run_etl.py, the DAG of
\* dags/twitch_etl_dag.py, or scripts/load_db.py from the command line.

\* default_args["retries"]
Retries == 1

Entries == {"run_etl", "dag", "load_db"}

\* sys.argv[1:] of load_db.py.
Argvs == {<< >>, << "--replace" >>, << "--other" >>,
          << "--other", "--replace" >>}

\* Variant: --replace is honoured at any position.
PreserveHistoryAnyPosition(e, a) ==
    ~(e = "load_db" /\ \E k \in DOMAIN a : a[k] = "--replace")

\* load_db.py lines 147-152, and the default of run_load (line 23) that
\* run_etl.py uses; the DAG runs load_db.py without arguments.
PreserveHistory(e, a) ==
    ~(e = "load_db" /\ Len(a) > 0 /\ a[1] = "--replace")

\* The stages a stage waits for: `extract >> transform >> load`.
DirectUpstream(i) == {i - 1} \cap DOMAIN Stages

\* Variant: a task runs once its upstream tasks are done, failed or not.
TriggerRuleAllDone(status) == status \in {"success", "failed"}

\* The default trigger rule of a task: all upstream tasks succeeded.
TriggerRule(status) == status = "success"

\* Stage i may start now.
Ready(i) ==
    CASE entry = "run_etl" ->
            /\ stage[i] = "none"
            /\ \A j \in 1..(i - 1) : stage[j] = "success"
      [] entry = "dag" ->
            /\ stage[i] \in {"none", "up_for_retry"}
            /\ \A j \in DirectUpstream(i) : TriggerRule(stage[j])
      [] entry = "load_db" ->
            /\ i = 3
            /\ stage[i] = "none"
      [] OTHER -> FALSE

\* A run is started.
RunBegin ==
    /\ entry = "none"
    /\ \E e \in Entries, a \in Argvs :
         /\ (e # "load_db") => a = << >>
         /\ entry' = e
         /\ argv' = a
    /\ stage' = [i \in DOMAIN Stages |-> "none"]
    /\ tries' = [i \in DOMAIN Stages |-> 0]
    /\ UNCHANGED << raw_file, proc_file, mode >>
    /\ UNCHANGED << loaderVars, summary, transformVars, concurrentVars,
                    authVars >>

\* run_etl.py calls the next function; the scheduler starts the next task.
StageStart ==
    /\ \E i \in DOMAIN Stages :
         /\ Ready(i)
         /\ stage' = [stage EXCEPT ![i] = "running"]
         /\ tries' = [tries EXCEPT ![i] = @ + 1]
    /\ UNCHANGED << entry, argv, raw_file, proc_file, mode >>
    /\ UNCHANGED << loaderVars, summary, transformVars, concurrentVars,
                    authVars >>

\* What a load that commits makes of the table (run_load lines 39-78).
LoadResult(t, d, history) ==
    CreateIndexes(
        IF history /\ TableExists(t)
        THEN IF Len(NewStreams(d, SelectDistinctId(t)).rows) > 0
             THEN ToSqlAppend(t, NewStreams(d, SelectDistinctId(t)))
             ELSE t
        ELSE ToSqlReplace(t, d),
        0)

\* The running stage returns (exit status 0).  run_extract writes the raw
\* CSV, run_transform reads it and writes the processed CSV, run_load
\* reads that and writes the table.
StageSucceed ==
    /\ \E i \in DOMAIN Stages :
         /\ stage[i] = "running"
         /\ stage' = [stage EXCEPT ![i] = "success"]
         /\ CASE Stages[i] = "extract" ->
                   /\ raw_file' \in {c \in CsvFiles : "id" \in c.cols}
                   /\ UNCHANGED << proc_file, store, mode >>
              [] Stages[i] = "transform" ->
                   /\ raw_file # NoFile
                   /\ proc_file' = raw_file
                   /\ UNCHANGED << raw_file, store, mode >>
              [] Stages[i] = "load" ->
                   /\ proc_file # NoFile
                   /\ \E now \in Times :
                        store' = LoadResult(store, Stamp(proc_file, now),
                                            PreserveHistory(entry, argv))
                   /\ mode' = IF PreserveHistory(entry, argv)
                              THEN "HISTORICAL" ELSE "REPLACE"
                   /\ UNCHANGED << raw_file, proc_file >>
    /\ UNCHANGED << entry, argv, tries >>
    /\ UNCHANGED << loaderLocals, summary, transformVars, concurrentVars,
                    authVars >>

\* The running stage raises (non-zero exit status).  run_etl.py ends with
\* the exception; the scheduler retries the task while it has retries
\* left, and else fails it and marks what waits for it.
StageFail ==
    /\ \E i \in DOMAIN Stages :
         /\ stage[i] = "running"
         /\ stage' =
              IF entry = "dag" /\ tries[i] <= Retries
              THEN [stage EXCEPT ![i] = "up_for_retry"]
              ELSE [j \in DOMAIN Stages |->
                      IF j = i THEN "failed"
                      ELSE IF entry = "dag" /\ j > i /\ ~TriggerRule("failed")
                      THEN "upstream_failed"
                      ELSE stage[j]]
    /\ UNCHANGED << entry, argv, tries, raw_file, proc_file, mode >>
    /\ UNCHANGED << loaderVars, summary, transformVars, concurrentVars,
                    authVars >>

\* Nothing of the run is running and nothing of it can start.
RunOver ==
    /\ entry # "none"
    /\ \A i \in DOMAIN Stages : stage[i] # "running" /\ ~Ready(i)

\* The run is over; the next one can be started.
RunEnd ==
    /\ RunOver
    /\ entry' = "none"
    /\ argv' = << >>
    /\ stage' = [i \in DOMAIN Stages |-> "none"]
    /\ tries' = [i \in DOMAIN Stages |-> 0]
    /\ UNCHANGED << raw_file, proc_file, mode >>
    /\ UNCHANGED << loaderVars, summary, transformVars, concurrentVars,
                    authVars >>

InitPipeline ==
    /\ LoaderInit
    /\ summary = NoSummary
    /\ TransformIdle
    /\ RestIdle

NextPipeline ==
    \/ RunBegin
    \/ StageStart
    \/ StageSucceed
    \/ StageFail
    \/ RunEnd

SpecPipeline == InitPipeline /\ [][NextPipeline]_vars

\* Stage i has been started in the run in progress.
Started(i) == stage[i] \notin {"none", "upstream_failed"}

\* The state of an ETL run: a started stage has all earlier stages
\* succeeded, at most one stage is running, and nothing after a failed
\* stage was ever started.
StagesInOrder ==
    entry \in {"run_etl", "dag"} =>
        /\ \A i \in DOMAIN Stages :
              Started(i) => \A j \in 1..(i - 1) : stage[j] = "success"
        /\ Cardinality({i \in DOMAIN Stages : stage[i] = "running"}) <= 1
        /\ \A i \in DOMAIN Stages :
              stage[i] \in {"failed", "up_for_retry"} =>
                 \A j \in (i + 1)..Len(Stages) : ~Started(j) /\ tries[j] = 0

\* C24 -- stage ordering: in one pipeline run (run_etl.py and the DAG)
\* extract, transform and load run strictly in that order without overlap;
\* a stage starts only after the stage before it has succeeded, so a
\* failed stage prevents every later stage of that run.
C24_StageOrdering ==
    /\ []StagesInOrder
    /\ [][\A i \in DOMAIN Stages :
            (entry \in {"run_etl", "dag"}
                /\ stage[i] # "running" /\ stage'[i] = "running") =>
               /\ \A j \in 1..(i - 1) : stage[j] = "success"
               /\ \A j \in DOMAIN Stages : stage[j] # "running"]_vars

C24_Witness ==
    /\ entry = "dag"
    /\ stage = << "success", "failed", "upstream_failed" >>
    /\ tries = << 1, 2, 0 >>

\* The entry point was given --replace as its first argument.
ExplicitReplace == entry = "load_db" /\ argv # << >> /\ Head(argv) = "--replace"

\* The load stage commits in this step.
LoadCommits == stage[3] = "running" /\ stage'[3] = "success"

\* C25 -- replace is explicit only: the REPLACE load is performed only
\* when load_db.py is given --replace as its first argument; every other
\* entry (no argument, another argument, run_etl.py, the DAG) performs a
\* HISTORICAL load, so along any sequence of such runs the ids in the
\* store only grow.
C25_ReplaceExplicitOnly ==
    [][/\ (LoadCommits /\ ExplicitReplace) =>
             /\ mode' = "REPLACE"
             /\ \E now \in Times : store'.rows = Stamp(proc_file, now).rows
       /\ (LoadCommits /\ ~ExplicitReplace) =>
             /\ mode' = "HISTORICAL"
             /\ IsPrefix(store.rows, store'.rows)
       /\ ~ExplicitReplace =>
             IdsOf(store.rows) \subseteq IdsOf(store'.rows)]_vars

C25_Witness ==
    /\ entry = "load_db"
    /\ argv = << "--other", "--replace" >>
    /\ stage[3] = "success"
    /\ mode = "HISTORICAL"
    /\ Len(store.rows) = 2
    /\ store.rows[1].ingested_at # store.rows[2].ingested_at

\* ------------------------------------------------------ row preservation
\* The output has the raw rows, one for one and in their order.
RowsPreserved ==
    /\ Len(proc_csv.rows) = Len(streams_csv.rows)
    /\ \A i \in DOMAIN proc_csv.rows : proc_csv.rows[i].id = i

\* C26 -- row preservation in transform: the output of run_transform has
\* exactly one row per input stream row, in the same order, for every
\* reference table and every lookup response; the join neither drops nor
\* multiplies stream rows.
C26_RowPreservation == (InTransform /\ Transformed) => RowsPreserved

\* The same for runs whose reference set has one row per key at the join.
RowsPreservedWithUniqueKeys ==
    (InTransform /\ Transformed /\ UniqueKeys) => RowsPreserved


\* ============================================================ token cache
\* auth.py: get_app_token keeps the app access token of the client
\* credentials flow in the module-level _token_cache and asks the token
\* endpoint for a new one when the cached one is missing or about to
\* expire.  Time is in seconds, as time.time() counts it.

MaxClock == 30
MaxToken == 2

\* Line 23: a cached token is used until this long before its expiry.
Margin == 30

\* Line 41: the lifetime assumed when the response has no expires_in.
DefaultExpiresIn == 3600

Tokens == 1..MaxToken

\* The lifetimes the token endpoint answers with: shorter than the
\* margin, just over it, and longer.
ExpiresIns == {20, 31, 40}

\* Line 39: the decoded body of a successful response, with or without
\* the expires_in key.
Responses ==
    [access_token : Tokens, expires_in : ExpiresIns]
        \cup [access_token : Tokens]

\* Line 41: int(js.get("expires_in", 3600)).
ExpiresIn(js) ==
    IF "expires_in" \in DOMAIN js THEN js.expires_in ELSE DefaultExpiresIn

\* Line 23 with the margin left out.
CacheFreshUntilExpiry(now) ==
    /\ token_cache.access_token # Null
    /\ now < token_cache.expires_at

\* Line 23: _token_cache["access_token"] and
\* now < _token_cache["expires_at"] - 30.
CacheFresh(now) ==
    /\ token_cache.access_token # Null
    /\ now < token_cache.expires_at - Margin

\* What a call records of itself: its time (line 22) and the cache it
\* found.
Call(result, requested, returned) ==
    [result |-> result, requested |-> requested, returned |-> returned,
     at |-> clock, before |-> token_cache]

\* Time passes between two calls.
Tick ==
    /\ clock < MaxClock
    /\ clock' \in (clock + 1)..MaxClock
    /\ UNCHANGED << token_cache, credentials, auth >>
    /\ UNCHANGED << loaderVars, summary, transformVars, concurrentVars,
                    pipelineVars >>

\* Lines 22-24: the cached token is returned; no request is made.
CachedToken ==
    /\ CacheFresh(clock)
    /\ auth' = Call("cached", FALSE, token_cache.access_token)
    /\ UNCHANGED << token_cache, clock, credentials >>
    /\ UNCHANGED << loaderVars, summary, transformVars, concurrentVars,
                    pipelineVars >>

\* Lines 26-27: no credentials, SystemExit before any request.
MissingCredentials ==
    /\ ~CacheFresh(clock)
    /\ ~credentials
    /\ auth' = Call("SystemExit", FALSE, Null)
    /\ UNCHANGED << token_cache, clock, credentials >>
    /\ UNCHANGED << loaderVars, summary, transformVars, concurrentVars,
                    pipelineVars >>

\* Lines 29-38: the request is sent and fails (connection error, timeout,
\* or an error status raised by raise_for_status).
RefreshFails ==
    /\ ~CacheFresh(clock)
    /\ credentials
    /\ auth' = Call("HTTPError", TRUE, Null)
    /\ UNCHANGED << token_cache, clock, credentials >>
    /\ UNCHANGED << loaderVars, summary, transformVars, concurrentVars,
                    pipelineVars >>

\* Lines 29-42: the request succeeds; the cache takes the new token and
\* its expiry, counted from the time read at line 22.
Refresh ==
    /\ ~CacheFresh(clock)
    /\ credentials
    /\ \E js \in Responses :
          /\ token_cache' = [access_token |-> js.access_token,
                             expires_at |-> clock + ExpiresIn(js)]
          /\ auth' = Call("refreshed", TRUE, js.access_token)
    /\ UNCHANGED << clock, credentials >>
    /\ UNCHANGED << loaderVars, summary, transformVars, concurrentVars,
                    pipelineVars >>

\* The process starts with the empty cache of line 18 and with the
\* credentials its environment gives it (lines 13-14).
InitAuth ==
    /\ LoaderInit
    /\ summary = NoSummary
    /\ TransformIdle
    /\ ConcurrentIdle
    /\ PipelineIdle
    /\ token_cache = [access_token |-> Null, expires_at |-> 0]
    /\ clock = 0
    /\ credentials \in BOOLEAN
    /\ auth = NoCall

NextAuth ==
    \/ Tick
    \/ CachedToken
    \/ MissingCredentials
    \/ RefreshFails
    \/ Refresh

SpecAuth == InitAuth /\ [][NextAuth]_vars

\* The cache the last call found was usable at the time of the call.
FoundFresh ==
    /\ auth.before.access_token # Null
    /\ auth.at < auth.before.expires_at - Margin

\* C27 -- token cache: over any sequence of get_app_token calls the
\* cached token is returned, without a request, only when a token is
\* cached and the time of the call is earlier than its expires_at minus
\* 30 seconds; otherwise the call goes to the refresh, and a refresh that
\* fails (missing credentials, HTTP error) leaves access_token and
\* expires_at of the cache as they were.
C27_TokenCache ==
    auth.result # "none" =>
        /\ auth.result = "cached" <=> FoundFresh
        /\ auth.result = "cached" =>
              /\ ~auth.requested
              /\ auth.returned = auth.before.access_token
              /\ token_cache = auth.before
        /\ ~FoundFresh =>
              /\ auth.result \in {"refreshed", "HTTPError", "SystemExit"}
              /\ auth.requested <=> credentials
        /\ auth.result \in {"HTTPError", "SystemExit"} =>
              token_cache = auth.before
        /\ auth.result = "refreshed" =>
              /\ token_cache.access_token = auth.returned
              /\ token_cache.expires_at > auth.at

\* A token is cached and the call comes exactly Margin seconds before
\* its expiry: the call refreshes, and the refresh fails.
C27_Witness ==
    /\ auth.result = "HTTPError"
    /\ auth.before.access_token # Null
    /\ auth.at = auth.before.expires_at - Margin
    /\ token_cache = auth.before


\* ------------------------------------------------------- index creation
\* The index step of a load that reached it: pc goes from "index" to
\* "done" and the transaction is committed.
IndexStep == pc = "index" /\ pc' = "done" /\ outcome' = "committed"

\* The names of the first k statements of the index step.
FirstIndexes(k) == {IndexList[i].name : i \in 1..k}

\* C28 -- index creation order: run_load attempts the six index creations
\* in the order started_at, game_id, language, hour_of_day, id,
\* ingested_at, after the data write of either mode; the first one that
\* fails ends the index step, so that no later index of the order is
\* created in that load, and an index that already exists is not an error.
C28_IndexOrder ==
    [][IndexStep =>
        /\ txn.rows = ResultRows
        /\ attempted' \in DOMAIN IndexList
        /\ ~warning' =>
              /\ attempted' = Len(IndexList)
              /\ txn'.indexes = txn.indexes \cup IndexNames
        /\ warning' =>
              /\ txn'.indexes =
                    txn.indexes \cup FirstIndexes(attempted' - 1)
              /\ \/ fault' = "index"
                 \/ IndexList[attempted'].col \notin txn.cols
        /\ (fault' # "index"
              /\ \A i \in DOMAIN IndexList : IndexList[i].col \in txn.cols)
              => ~warning'
        /\ [i \in DOMAIN IndexList |-> IndexList[i].col] =
              << "started_at", "game_id", "language", "hour_of_day",
                 "id", "ingested_at" >>]_vars

\* A HISTORICAL load on a table that has the first two indexes: they are
\* passed without error, the third statement fails, and the last three
\* indexes are not created.
C28_Witness ==
    /\ Done
    /\ outcome = "committed"
    /\ preserve_history
    /\ table_exists
    /\ pre.indexes = FirstIndexes(2)
    /\ warning
    /\ attempted = 3
    /\ store.indexes = FirstIndexes(2)

====
